---- MODULE Spec2Model ----
(***************************************************************************)
(* State-machine model of find_critical_backward_knight_moves              *)
(* (src/find_backwards_knights.py).  The chess library and the UCI engine  *)
(* are external: a move is what the code reads of it (piece type on the    *)
(* origin square, origin and destination rank), a position is its number   *)
(* of legal moves, and every engine answer is a nondeterministic choice.   *)
(*                                                                         *)
(* Moves of the analysed position are numbered: 1 is the move played in    *)
(* the game (the backward knight move), 2..nLegal are the other legal      *)
(* moves, 0 is a move that is not in legal_moves.  A Python value that may *)
(* be None is a sequence: <<>> is None, <<x>> is the value x.              *)
(***************************************************************************)
EXTENDS Integers, Sequences, FiniteSets, TLC

\* ---------------------------------------------------------------- bounds
MaxGames == 2            \* games in the PGN file
MaxMoveNumber == 11      \* a game has no White move after this full move
MaxPositionsBound == 2   \* the value the model gives MAX_POSITIONS
MaxLegal == 3            \* legal moves of an analysed position
MaxRows == 3             \* data rows of the puzzle CSV
MaxTarget == 2           \* largest max_puzzles given to the Lichess filter
MaxEntries == 3          \* entries of the PGN given to the score filter

\* ----------------------------------------------- configuration constants
SCORE_THRESHOLD == 300
MAX_POSITIONS == MaxPositionsBound
SKIP_FULL_MOVES == 10
MIN_ELO == 2200
MAX_RANK == 7

None == <<>>
Some(x) == <<x>>
Val(o) == o[1]

WHITE == "White"
BLACK == "Black"
KNIGHT == "KNIGHT"
PieceTypes == {KNIGHT, "OTHER", "NONE"}
Ranks == 0..MAX_RANK

\* Centipawn scores the engine may report (score(mate_score=30000) is an int).
Scores == {0, SCORE_THRESHOLD - 1, SCORE_THRESHOLD}

\* Values of a WhiteElo / BlackElo header; "missing" is an absent header.
EloHeaders == {"missing", "invalid", "2199", "2200"}

VARIABLES
    pc,                 \* position of the run in the function body
    zeroEngine,         \* the engine is a scripted fake that scores everything 0
    engine,             \* "none" | "running" | "terminated" | "quit"
    positions,          \* the list of collected records
    game_count,
    headers,            \* <<WhiteElo, BlackElo>> of the game read last
    move_number,
    turn,               \* board.turn
    piece, from_rank, to_rank,      \* what lines 118-121 read of the move
    is_backward,
    nLegal,             \* len(legal_moves), 0 while not computed
    analysis_results,   \* first move of each ranked line: <<>> is an empty pv
    best_move, best_score, backward_score,
    prelim_failed, run_full_analysis,
    backward_move_score_full, alternative_best_score_full,
    analysis_successful,
    queries,            \* history: engine queries issued for the current position
    engineFull,         \* history: the engine's full-budget score of every alternative
    queryFailed,        \* history: a query of the current position raised or gave no score
    path_exists,        \* history: os.path.exists(engine_path): "unchecked" | "found" | "missing"
    pgn_opened,         \* history: open(pgn_file_path) was called
    engine_starts,      \* history: calls of popen_uci that returned an engine
    engine_quits,       \* history: calls of engine.quit()
    \* find_lichess_puzzles.filter_puzzles
    lpc,                \* position of the run in the function body
    total_rows,
    desired_themes, excluded_themes,    \* the empty set is None or an empty list
    max_puzzles,        \* 0 is None
    random_start,
    segments,
    seg,                \* index in segments of the segment being processed
    row_i,              \* the loop's i: number of the row the reader yields next
    selected_puzzles,
    lichess_count,      \* the function's count
    processed,
    examined,           \* history: numbers of the rows examined, in order
    \* filter_pgn_by_score.filter_puzzles
    spc,                \* position of the run in the function body
    input_games,        \* history: the entries read from the input file
    filtered_games,
    score_count,        \* the function's count
    output_games,       \* the entries written to the output file
    counted_ids         \* history: the entries that incremented count

walkVars == <<game_count, headers, move_number, turn>>
moveVars == <<piece, from_rank, to_rank, is_backward, nLegal>>
prelimVars == <<analysis_results, best_move, best_score, backward_score,
                prelim_failed, run_full_analysis>>
fullVars == <<backward_move_score_full, alternative_best_score_full,
              analysis_successful, engineFull>>
lifeVars == <<path_exists, pgn_opened, engine_starts, engine_quits>>
finderVars == <<pc, zeroEngine, engine, positions, walkVars, moveVars,
                prelimVars, fullVars, queries, queryFailed, lifeVars>>
lichessVars == <<lpc, total_rows, desired_themes, excluded_themes, max_puzzles,
                 random_start, segments, seg, row_i, selected_puzzles,
                 lichess_count, processed, examined>>
scoreVars == <<spc, input_games, filtered_games, score_count, output_games,
               counted_ids>>
otherVars == <<lichessVars, scoreVars>>
vars == <<finderVars, lichessVars, scoreVars>>

\* ------------------------------------------------------- pure operators

\* int(header) succeeds; a missing header reads as the default "0".
HeaderGet(h) == IF h = "missing" THEN "0" ELSE h
IsInt(s) == s \in {"0", "2199", "2200"}
IntOf(s) == CASE s = "0" -> 0 [] s = "2199" -> 2199 [] s = "2200" -> 2200

\* Mutant of EloAccepted: a game is skipped only if both ratings are low.
EloAcceptedEither(h) ==
    LET w == HeaderGet(h[1])
        b == HeaderGet(h[2])
    IN  /\ IsInt(w) /\ IsInt(b)
        /\ ~(IntOf(w) < MIN_ELO /\ IntOf(b) < MIN_ELO)

\* Lines 73-87: the game passes the rating check.
EloAccepted(h) ==
    LET w == HeaderGet(h[1])
        b == HeaderGet(h[2])
    IN  /\ IsInt(w) /\ IsInt(b)
        /\ ~(IntOf(w) < MIN_ELO \/ IntOf(b) < MIN_ELO)

\* Mutant of InSkipWindow: the window is one full move short.
InSkipWindowShort(mn) == mn < SKIP_FULL_MOVES

\* Line 110: the move is inside the skip window.
InSkipWindow(mn) == mn <= SKIP_FULL_MOVES

Opposite(t) == IF t = WHITE THEN BLACK ELSE WHITE

\* Mutant of IsBackward: a White knight staying on its rank counts as backward.
IsBackwardLoose(p, fr, tr, t) ==
    /\ p = KNIGHT
    /\ \/ t = WHITE /\ tr <= fr
       \/ t = BLACK /\ tr > fr

\* Lines 116-126: the backward knight move check.
IsBackward(p, fr, tr, t) ==
    /\ p = KNIGHT
    /\ \/ t = WHITE /\ tr < fr
       \/ t = BLACK /\ tr > fr

\* Mutant of OnlyOneMove: a forced move is sent to the engine.
OnlyOneMoveStrict(n) == n < 1

\* Line 134: the position has no alternative to the move played.
OnlyOneMove(n) == n <= 1

\* Mutant of LimitReached: the limit is off by one.
LimitReachedLate(ps) == Len(ps) > MAX_POSITIONS

\* Lines 63, 349, 366: the position limit is reached.
LimitReached(ps) == Len(ps) >= MAX_POSITIONS

\* candidate in legal_moves
IsLegal(m, n) == m \in 1..n

\* Mutant of SelectAlternative: the second line is taken without checking
\* that it is not the backward move again.
SelectAlternativeUnchecked(results, n) ==
    IF results = <<>> THEN None
    ELSE IF results[1] = <<>> THEN None
    ELSE LET candidate_move1 == results[1][1] IN
         IF candidate_move1 # 1
         THEN IF IsLegal(candidate_move1, n) THEN Some(candidate_move1) ELSE None
         ELSE IF Len(results) > 1 /\ results[2] # <<>>
              THEN LET candidate_move2 == results[2][1] IN
                   IF IsLegal(candidate_move2, n)
                   THEN Some(candidate_move2) ELSE None
              ELSE None

\* Lines 155-187: the best alternative taken from the MultiPV answer, None
\* when the answer holds no legal move other than the backward move (move 1).
SelectAlternative(results, n) ==
    IF results = <<>> THEN None
    ELSE IF results[1] = <<>> THEN None
    ELSE LET candidate_move1 == results[1][1] IN
         IF candidate_move1 # 1
         THEN IF IsLegal(candidate_move1, n) THEN Some(candidate_move1) ELSE None
         ELSE IF Len(results) > 1 /\ results[2] # <<>>
              THEN LET candidate_move2 == results[2][1] IN
                   IF candidate_move2 # 1
                   THEN IF IsLegal(candidate_move2, n)
                        THEN Some(candidate_move2) ELSE None
                   ELSE None
              ELSE None

\* Mutants of MarginMet: a strict comparison, and the margin left out.
MarginMetStrict(backward, alternative) == backward > alternative + SCORE_THRESHOLD
MarginMetNoMargin(backward, alternative) == backward >= alternative

\* Lines 258 and 328: the margin comparison of both stages.
MarginMet(backward, alternative) == backward >= alternative + SCORE_THRESHOLD

\* Mutants of PrelimPasses: a failed preliminary stage lets the full stage
\* run; the engine's top choice being the backward move is enough to pass.
PrelimPassesOnFailure(failed, bscore, ascore) ==
    IF failed \/ bscore = None \/ ascore = None
    THEN TRUE
    ELSE Val(bscore) >= Val(ascore) + SCORE_THRESHOLD
PrelimPassesTopChoice(failed, bscore, ascore) ==
    IF failed \/ bscore = None \/ ascore = None
    THEN FALSE
    ELSE \/ Val(bscore) >= Val(ascore) + SCORE_THRESHOLD
         \/ analysis_results[1] = <<1>>

\* Lines 245-270: the value given to run_full_analysis.
PrelimPasses(failed, bscore, ascore) ==
    IF failed \/ bscore = None \/ ascore = None
    THEN FALSE
    ELSE MarginMet(Val(bscore), Val(ascore))

\* Mutant of FullPasses: the margin is left out of the full comparison.
FullPassesNoMargin(ok, bfull, afull) ==
    /\ ok /\ bfull # None /\ afull # None
    /\ Val(bfull) > Val(afull)

\* Lines 327-328: the full stage records the position.
FullPasses(ok, bfull, afull) ==
    /\ ok /\ bfull # None /\ afull # None
    /\ MarginMet(Val(bfull), Val(afull))

\* ------------------------------------------------------------ the engine

EngineScores == IF zeroEngine THEN {0} ELSE Scores

\* The scores the preliminary query of the backward move may report: the
\* shallow search may give a score the full search does not confirm.
PrelimBackwardScores == IF zeroEngine THEN {0} ELSE Scores \cup {SCORE_THRESHOLD + 1}

\* First moves a ranked line of a position with n legal moves may have.
PvHeads(n) == {<<>>} \cup {<<m>> : m \in 0..n}
ResultLists(n) ==
    {<<>>} \cup {<<a>> : a \in PvHeads(n)}
           \cup {<<a, b>> : a \in PvHeads(n), b \in PvHeads(n)}

\* What one engine.analyse call may do: answer with a score, answer without
\* one, raise, or raise EngineTerminatedError because the process died; a dead
\* process raises on every later call.
QueryOutcomes ==
    IF engine = "running" THEN {"score", "noscore", "raises", "terminated"}
                          ELSE {"terminated"}
EngineAfter(out) == IF out = "terminated" THEN "terminated" ELSE engine

\* -------------------------------------------------------------- the run

NoMove == [p |-> "NONE", fr |-> 0, tr |-> 0]

FinderInit ==
    /\ pc = "start"
    /\ zeroEngine \in BOOLEAN
    /\ engine = "none"
    /\ positions = <<>>
    /\ game_count = 0
    /\ headers = <<"missing", "missing">>
    /\ move_number = 0
    /\ turn = WHITE
    /\ piece = NoMove.p /\ from_rank = NoMove.fr /\ to_rank = NoMove.tr
    /\ is_backward = FALSE
    /\ nLegal = 0
    /\ analysis_results = <<>>
    /\ best_move = None /\ best_score = None /\ backward_score = None
    /\ prelim_failed = FALSE /\ run_full_analysis = FALSE
    /\ backward_move_score_full = None /\ alternative_best_score_full = None
    /\ analysis_successful = FALSE
    /\ queries = <<>>
    /\ engineFull = <<>>
    /\ queryFailed = FALSE
    /\ path_exists = "unchecked"
    /\ pgn_opened = FALSE
    /\ engine_starts = 0
    /\ engine_quits = 0

\* The two filter scripts are not running.
LichessIdle ==
    /\ lpc = "idle"
    /\ total_rows = 0
    /\ desired_themes = {} /\ excluded_themes = {}
    /\ max_puzzles = 0
    /\ random_start = 0
    /\ segments = <<>>
    /\ seg = 0
    /\ row_i = 0
    /\ selected_puzzles = <<>>
    /\ lichess_count = 0
    /\ processed = 0
    /\ examined = <<>>

ScoreIdle ==
    /\ spc = "idle"
    /\ input_games = <<>>
    /\ filtered_games = <<>>
    /\ score_count = 0
    /\ output_games = <<>>
    /\ counted_ids = {}

Init == FinderInit /\ LichessIdle /\ ScoreIdle

\* The locals of one position are dead once the move is pushed (lines 117,
\* 141-145 and 276-278 set them again before they are read).
ResetPosition ==
    /\ piece' = NoMove.p /\ from_rank' = NoMove.fr /\ to_rank' = NoMove.tr
    /\ is_backward' = FALSE
    /\ nLegal' = 0
    /\ analysis_results' = <<>>
    /\ best_move' = None /\ best_score' = None /\ backward_score' = None
    /\ prelim_failed' = FALSE /\ run_full_analysis' = FALSE
    /\ backward_move_score_full' = None /\ alternative_best_score_full' = None
    /\ analysis_successful' = FALSE
    /\ queries' = <<>>
    /\ engineFull' = <<>>
    /\ queryFailed' = FALSE

\* Mutant of Start: the run goes on although the engine file is missing.
StartIgnoresPath ==
    /\ pc = "start"
    /\ \E exists \in BOOLEAN :
          /\ path_exists' = IF exists THEN "found" ELSE "missing"
          /\ pc' = "popen"
    /\ UNCHANGED <<pgn_opened, engine_starts, engine_quits>>
    /\ UNCHANGED <<otherVars, zeroEngine, engine, positions, walkVars, moveVars,
                   prelimVars, fullVars, queries, queryFailed>>

\* Lines 42-48: the engine path check.
Start ==
    /\ pc = "start"
    /\ \E exists \in BOOLEAN :
          /\ path_exists' = IF exists THEN "found" ELSE "missing"
          /\ pc' = IF exists THEN "popen" ELSE "done"
    /\ UNCHANGED <<pgn_opened, engine_starts, engine_quits>>
    /\ UNCHANGED <<otherVars, zeroEngine, engine, positions, walkVars, moveVars,
                   prelimVars, fullVars, queries, queryFailed>>

\* Line 52: popen_uci starts the engine or raises.
Popen ==
    /\ pc = "popen"
    /\ \E ok \in BOOLEAN :
          IF ok THEN /\ engine' = "running"
                     /\ engine_starts' = engine_starts + 1
                     /\ pc' = "configure"
                ELSE /\ engine' = engine
                     /\ engine_starts' = engine_starts
                     /\ pc' = "finally"
    /\ UNCHANGED <<path_exists, pgn_opened, engine_quits>>
    /\ UNCHANGED <<otherVars, zeroEngine, positions, walkVars, moveVars, prelimVars,
                   fullVars, queries, queryFailed>>

\* Lines 54-57: configure succeeds or raises (the engine may have died).
Configure ==
    /\ pc = "configure"
    /\ \E out \in {"ok", "raises", "terminated"} :
          /\ pc' = IF out = "ok" THEN "open" ELSE "finally"
          /\ engine' = IF out = "terminated" THEN "terminated" ELSE engine
    /\ UNCHANGED <<otherVars, zeroEngine, lifeVars, positions, walkVars, moveVars, prelimVars,
                   fullVars, queries, queryFailed>>

\* Line 59: the PGN file is opened, or FileNotFoundError.
OpenPgn ==
    /\ pc = "open"
    /\ \E found \in BOOLEAN : pc' = IF found THEN "game_loop" ELSE "finally"
    /\ pgn_opened' = TRUE
    /\ UNCHANGED <<path_exists, engine_starts, engine_quits>>
    /\ UNCHANGED <<otherVars, zeroEngine, engine, positions, walkVars, moveVars,
                   prelimVars, fullVars, queries, queryFailed>>

\* Lines 61-93: the head of the game loop.
GameLoop ==
    /\ pc = "game_loop"
    /\ IF LimitReached(positions)
       THEN pc' = "finally" /\ UNCHANGED walkVars
       ELSE \/ \* read_game returns None: end of file
               pc' = "finally" /\ UNCHANGED walkVars
            \/ /\ game_count < MaxGames
               /\ game_count' = game_count + 1
               /\ \E h \in EloHeaders \X EloHeaders, start \in {WHITE, BLACK} :
                     /\ headers' = h
                     /\ IF EloAccepted(h)
                        THEN /\ turn' = start
                             /\ move_number' = 0
                             /\ pc' = "move_loop"
                        ELSE /\ UNCHANGED <<turn, move_number>>
                             /\ pc' = "game_loop"
    /\ UNCHANGED <<otherVars, zeroEngine, lifeVars, engine, positions, moveVars, prelimVars,
                   fullVars, queries, queryFailed>>

\* Lines 94-114: the next move of the game, played at once inside the skip
\* window.
TakeMove ==
    /\ pc = "move_loop"
    /\ \/ \* node.variations is empty: the game is over
          /\ pc' = "game_loop"
          /\ UNCHANGED <<move_number, turn, piece, from_rank, to_rank>>
       \/ /\ turn = WHITE => move_number < MaxMoveNumber
          /\ LET mn == IF turn = WHITE THEN move_number + 1 ELSE move_number IN
             /\ move_number' = mn
             /\ IF InSkipWindow(mn)
                THEN /\ turn' = Opposite(turn)
                     /\ pc' = "move_loop"
                     /\ UNCHANGED <<piece, from_rank, to_rank>>
                ELSE /\ \E p \in PieceTypes, fr \in Ranks, tr \in Ranks :
                           piece' = p /\ from_rank' = fr /\ to_rank' = tr
                     /\ turn' = turn
                     /\ pc' = "detect"
    /\ UNCHANGED <<otherVars, zeroEngine, lifeVars, engine, positions, game_count, headers,
                   is_backward, nLegal, prelimVars, fullVars, queries, queryFailed>>

\* Lines 116-126.
DetectBackward ==
    /\ pc = "detect"
    /\ is_backward' = IsBackward(piece, from_rank, to_rank, turn)
    /\ pc' = "legal_check"
    /\ UNCHANGED <<otherVars, zeroEngine, lifeVars, engine, positions, walkVars, piece, from_rank,
                   to_rank, nLegal, prelimVars, fullVars, queries, queryFailed>>

\* Lines 128-145: a backward move with an alternative goes to the engine.
\* piece, from_rank and to_rank are not read past line 126.
LegalCheck ==
    /\ pc = "legal_check"
    /\ piece' = NoMove.p /\ from_rank' = NoMove.fr /\ to_rank' = NoMove.tr
    /\ IF ~is_backward
       THEN pc' = "push" /\ UNCHANGED nLegal
       ELSE \E n \in 1..MaxLegal :
               /\ nLegal' = n
               /\ pc' = IF OnlyOneMove(n) THEN "push" ELSE "multipv"
    /\ UNCHANGED <<otherVars, zeroEngine, lifeVars, engine, positions, walkVars, is_backward,
                   prelimVars, fullVars, queries, queryFailed>>

\* Lines 147-191: the top-2 query and the choice of the best alternative.
MultiPV ==
    /\ pc = "multipv"
    /\ queries' = Append(queries, <<"multipv", 0>>)
    /\ \E out \in QueryOutcomes \ {"noscore"} :
          /\ engine' = EngineAfter(out)
          /\ queryFailed' = (queryFailed \/ out # "score")
          /\ IF out = "score"
             THEN \E results \in ResultLists(nLegal) :
                     /\ analysis_results' = results
                     /\ best_move' = SelectAlternative(results, nLegal)
                     /\ prelim_failed' = (SelectAlternative(results, nLegal) = None)
             ELSE /\ prelim_failed' = TRUE
                  /\ UNCHANGED <<analysis_results, best_move>>
    /\ pc' = "prelim_alt"
    /\ UNCHANGED <<otherVars, zeroEngine, lifeVars, positions, walkVars, moveVars, best_score,
                   backward_score, run_full_analysis, fullVars>>

\* Lines 193-218: the preliminary score of the best alternative.
PrelimAlt ==
    /\ pc = "prelim_alt"
    /\ IF ~prelim_failed /\ best_move # None
       THEN /\ queries' = Append(queries, <<"prelim", Val(best_move)>>)
            /\ \E out \in QueryOutcomes :
                  /\ engine' = EngineAfter(out)
                  /\ queryFailed' = (queryFailed \/ out # "score")
                  /\ IF out = "score"
                     THEN /\ \E s \in EngineScores : best_score' = Some(s)
                          /\ UNCHANGED prelim_failed
                     ELSE /\ prelim_failed' = TRUE
                          /\ UNCHANGED best_score
       ELSE /\ prelim_failed' = (prelim_failed \/ best_move = None)
            /\ UNCHANGED <<queries, queryFailed, engine, best_score>>
    /\ pc' = "prelim_bwd"
    /\ UNCHANGED <<otherVars, zeroEngine, lifeVars, positions, walkVars, moveVars, analysis_results,
                   best_move, backward_score, run_full_analysis, fullVars>>

\* Lines 221-243: the preliminary score of the backward move.
PrelimBwd ==
    /\ pc = "prelim_bwd"
    /\ IF ~prelim_failed
       THEN /\ queries' = Append(queries, <<"prelim", 1>>)
            /\ \E out \in QueryOutcomes :
                  /\ engine' = EngineAfter(out)
                  /\ queryFailed' = (queryFailed \/ out # "score")
                  /\ IF out = "score"
                     THEN /\ \E s \in PrelimBackwardScores : backward_score' = Some(s)
                          /\ UNCHANGED prelim_failed
                     ELSE /\ prelim_failed' = TRUE
                          /\ UNCHANGED backward_score
       ELSE UNCHANGED <<queries, queryFailed, engine, backward_score, prelim_failed>>
    /\ pc' = "prelim_compare"
    /\ UNCHANGED <<otherVars, zeroEngine, lifeVars, positions, walkVars, moveVars, analysis_results,
                   best_move, best_score, run_full_analysis, fullVars>>

\* Lines 245-270: the preliminary comparison.
PrelimCompare ==
    /\ pc = "prelim_compare"
    /\ run_full_analysis' = PrelimPasses(prelim_failed, backward_score, best_score)
    /\ pc' = "full_gate"
    /\ UNCHANGED <<otherVars, zeroEngine, lifeVars, engine, positions, walkVars, moveVars,
                   analysis_results, best_move, best_score, backward_score,
                   prelim_failed, fullVars, queries, queryFailed>>

\* Lines 272-278: the full stage is entered only with run_full_analysis.
FullGate ==
    /\ pc = "full_gate"
    /\ IF run_full_analysis
       THEN /\ backward_move_score_full' = None
            /\ alternative_best_score_full' = None
            /\ analysis_successful' = TRUE
            /\ pc' = "full_bwd"
       ELSE /\ UNCHANGED <<backward_move_score_full, alternative_best_score_full,
                           analysis_successful>>
            /\ pc' = "push"
    /\ UNCHANGED <<otherVars, zeroEngine, lifeVars, engine, positions, walkVars, moveVars,
                   prelimVars, engineFull, queries, queryFailed>>

\* Lines 280-298: the full-budget score of the backward move.
FullBwd ==
    /\ pc = "full_bwd"
    /\ queries' = Append(queries, <<"full", 1>>)
    /\ \E out \in QueryOutcomes :
          /\ engine' = EngineAfter(out)
          /\ queryFailed' = (queryFailed \/ out # "score")
          /\ IF out = "score"
             THEN /\ \E s \in EngineScores : backward_move_score_full' = Some(s)
                  /\ UNCHANGED analysis_successful
             ELSE /\ analysis_successful' = FALSE
                  /\ UNCHANGED backward_move_score_full
    /\ pc' = "full_alt"
    /\ UNCHANGED <<otherVars, zeroEngine, lifeVars, positions, walkVars, moveVars, prelimVars,
                   alternative_best_score_full, engineFull>>

\* Lines 300-323: the full-budget score of best_move, the alternative of the
\* preliminary stage.  engineFull is the score the engine gives each legal
\* move at the full budget; the code asks for best_move's only.
FullAlt ==
    /\ pc = "full_alt"
    /\ IF analysis_successful /\ best_move # None
       THEN /\ queries' = Append(queries, <<"full", Val(best_move)>>)
            /\ \E out \in QueryOutcomes :
                  /\ engine' = EngineAfter(out)
                  /\ queryFailed' = (queryFailed \/ out # "score")
                  /\ IF out = "score"
                     THEN /\ \E f \in [1..nLegal -> EngineScores] :
                               /\ f[1] = Val(backward_move_score_full)
                               /\ engineFull' = f
                               /\ alternative_best_score_full' = Some(f[Val(best_move)])
                          /\ UNCHANGED analysis_successful
                     ELSE /\ analysis_successful' = FALSE
                          /\ UNCHANGED <<alternative_best_score_full, engineFull>>
       ELSE /\ analysis_successful' = (analysis_successful /\ best_move # None)
            /\ UNCHANGED <<queries, queryFailed, engine,
                           alternative_best_score_full, engineFull>>
    /\ pc' = "full_compare"
    /\ UNCHANGED <<otherVars, zeroEngine, lifeVars, positions, walkVars, moveVars, prelimVars,
                   backward_move_score_full>>

\* Mutant of PositionInfo: the record stores the preliminary scores.
PositionInfoPrelim ==
    [headers |-> headers,
     move_number |-> move_number,
     turn |-> turn,
     solution_score |-> Val(backward_score),
     next_best_score |-> Val(best_score)]

\* Lines 336-345: the record of a qualifying position.
PositionInfo ==
    [headers |-> headers,
     move_number |-> move_number,
     turn |-> turn,
     solution_score |-> Val(backward_move_score_full),
     next_best_score |-> Val(alternative_best_score_full)]

\* Lines 326-359: the full comparison; a record is appended, and the move
\* loop is left without pushing the move when the limit is reached.
FullCompare ==
    /\ pc = "full_compare"
    /\ IF FullPasses(analysis_successful, backward_move_score_full,
                     alternative_best_score_full)
       THEN /\ positions' = Append(positions, PositionInfo)
            /\ pc' = IF LimitReached(Append(positions, PositionInfo))
                     THEN "game_loop" ELSE "push"
       ELSE /\ UNCHANGED positions
            /\ pc' = "push"
    /\ UNCHANGED <<otherVars, zeroEngine, lifeVars, engine, walkVars, moveVars, prelimVars,
                   fullVars, queries, queryFailed>>

\* Lines 361-367: the move is played and the walk goes on, unless the limit
\* is reached.
Push ==
    /\ pc = "push"
    /\ turn' = Opposite(turn)
    /\ ResetPosition
    /\ pc' = IF LimitReached(positions) THEN "game_loop" ELSE "move_loop"
    /\ UNCHANGED <<otherVars, zeroEngine, lifeVars, engine, positions, game_count, headers,
                   move_number>>

\* Mutant of Finally: an engine that died is not quit.
FinallySkipsDeadEngine ==
    /\ pc = "finally"
    /\ engine' = IF engine = "running" THEN "quit" ELSE engine
    /\ engine_quits' = IF engine = "running" THEN engine_quits + 1 ELSE engine_quits
    /\ pc' = "done"
    /\ UNCHANGED <<path_exists, pgn_opened, engine_starts>>
    /\ UNCHANGED <<otherVars, zeroEngine, positions, walkVars, moveVars, prelimVars,
                   fullVars, queries, queryFailed>>

\* Lines 369-380: the handlers and the finally block.
Finally ==
    /\ pc = "finally"
    /\ engine' = IF engine # "none" THEN "quit" ELSE engine
    /\ engine_quits' = IF engine # "none" THEN engine_quits + 1 ELSE engine_quits
    /\ pc' = "done"
    /\ UNCHANGED <<path_exists, pgn_opened, engine_starts>>
    /\ UNCHANGED <<otherVars, zeroEngine, positions, walkVars, moveVars, prelimVars,
                   fullVars, queries, queryFailed>>

Next ==
    \/ Start \/ Popen \/ Configure \/ OpenPgn \/ GameLoop \/ TakeMove
    \/ DetectBackward \/ LegalCheck \/ MultiPV \/ PrelimAlt \/ PrelimBwd
    \/ PrelimCompare \/ FullGate \/ FullBwd \/ FullAlt \/ FullCompare
    \/ Push \/ Finally

Spec == Init /\ [][Next]_vars

TypeOK ==
    /\ pc \in {"start", "popen", "configure", "open", "game_loop", "move_loop",
               "detect", "legal_check", "multipv", "prelim_alt", "prelim_bwd",
               "prelim_compare", "full_gate", "full_bwd", "full_alt",
               "full_compare", "push", "finally", "done"}
    /\ engine \in {"none", "running", "terminated", "quit"}
    /\ game_count \in 0..MaxGames
    /\ move_number \in 0..MaxMoveNumber
    /\ turn \in {WHITE, BLACK}
    /\ nLegal \in 0..MaxLegal

\* ---------------------------------------------------------------- claims

HasQuery(stage) == \E i \in 1..Len(queries) : queries[i][1] = stage
Appends == Len(positions') > Len(positions)
IssuesQuery == Len(queries') > Len(queries)
IssuesFullQuery == IssuesQuery /\ queries'[Len(queries')][1] = "full"
FullStagePcs == {"full_bwd", "full_alt", "full_compare"}

\* Both preliminary scores were obtained and meet the margin.
PrelimMarginOK ==
    /\ best_score # None /\ backward_score # None
    /\ Val(backward_score) >= Val(best_score) + SCORE_THRESHOLD

\* The preliminary stage of the current position ran to its end and passed.
PrelimPassed ==
    /\ run_full_analysis /\ ~prelim_failed /\ best_move # None
    /\ PrelimMarginOK
    /\ Len(queries) >= 3
    /\ SubSeq(queries, 1, 3) =
          << <<"multipv", 0>>, <<"prelim", Val(best_move)>>, <<"prelim", 1>> >>

\* The first move of the engine's top-ranked line is the backward move.
TopIsBackward == analysis_results # <<>> /\ analysis_results[1] = <<1>>

\* C1: a full-budget query is issued, and a record is appended, only for a
\* position whose preliminary stage ran and passed.
C1_FullOnlyAfterPrelimPass ==
    [][(IssuesFullQuery \/ Appends) => PrelimPassed]_vars

W1_FullAfterPrelimPass ==
    /\ pc = "push" /\ PrelimPassed /\ Len(queries) = 5
    /\ Len(positions) = 1

C3_Orig_MarginOrTopChoice ==
    (pc = "full_gate" /\ ~prelim_failed) =>
        (run_full_analysis <=> (PrelimMarginOK \/ TopIsBackward))

\* C3 amended: the preliminary stage passes, and the full stage runs, if and
\* only if both preliminary scores were obtained and the margin is met; the
\* backward move being the engine's top choice does not make it pass.
C3_PrelimPassIffMargin ==
    /\ pc = "full_gate" => (run_full_analysis <=> PrelimMarginOK)
    /\ (pc \in FullStagePcs \/ HasQuery("full")) => PrelimMarginOK

W3_TopChoiceFailsPrelim ==
    /\ pc = "full_gate" /\ TopIsBackward /\ ~prelim_failed
    /\ ~run_full_analysis

\* C4: the margin comparison is inclusive in both stages: with every query
\* answered and the backward move's score equal to the alternative's score
\* plus SCORE_THRESHOLD, the preliminary stage passes and the full stage
\* appends a record.
C4_InclusiveMargin ==
    [][/\ (/\ pc = "prelim_compare"
            /\ best_score # None /\ backward_score # None
            /\ Val(backward_score) = Val(best_score) + SCORE_THRESHOLD)
          => run_full_analysis'
       /\ (/\ pc = "full_gate"
            /\ best_score # None /\ backward_score # None
            /\ Val(backward_score) = Val(best_score) + SCORE_THRESHOLD)
          => pc' = "full_bwd"
       /\ (/\ pc = "full_compare"
            /\ backward_move_score_full # None
            /\ alternative_best_score_full # None
            /\ Val(backward_move_score_full) =
                  Val(alternative_best_score_full) + SCORE_THRESHOLD)
          => positions' = Append(positions, PositionInfo)]_vars

W4_RecordedAtExactMargin ==
    /\ pc = "push" /\ Len(positions) = 1
    /\ best_score # None /\ backward_score # None
    /\ Val(backward_score) = Val(best_score) + SCORE_THRESHOLD
    /\ positions[1].solution_score = positions[1].next_best_score + SCORE_THRESHOLD
    /\ positions[1].solution_score = Val(backward_move_score_full)

\* C5: with an engine that scores every position 0 and a positive
\* SCORE_THRESHOLD, no record is ever appended and no full stage is run,
\* whatever the ranked lines are.
C5_ZeroEngineFindsNothing ==
    (zeroEngine /\ SCORE_THRESHOLD > 0) =>
        /\ positions = <<>>
        /\ ~run_full_analysis

W5_ZeroEngineCompared ==
    /\ zeroEngine /\ pc = "full_gate"
    /\ best_score = Some(0) /\ backward_score = Some(0)
    /\ TopIsBackward

\* C6: a backward knight move played in a position with at most one legal
\* move causes no engine query and no record; the move is played and the walk
\* continues.
C6_ForcedMoveNotAnalysed ==
    [][/\ (is_backward' /\ nLegal' # 0 /\ nLegal' <= 1)
          => (pc' = "push" /\ queries' = <<>>)
       /\ (is_backward /\ nLegal # 0 /\ nLegal <= 1)
          => /\ positions' = positions
             /\ queries' = <<>>
             /\ engine' = engine
             /\ turn' = Opposite(turn)
             /\ pc' = "move_loop"]_vars

W6_ForcedBackwardMove ==
    pc = "push" /\ is_backward /\ nLegal = 1 /\ queries = <<>>

\* C7: the number of collected records never exceeds MAX_POSITIONS, during
\* the run and in the returned list.
C7_AtMostMaxPositions == Len(positions) <= MAX_POSITIONS

W7_ReturnedFullList == pc = "done" /\ Len(positions) = MAX_POSITIONS

\* C8: once MAX_POSITIONS records are collected, no game is read, no move of
\* the current game is walked and no engine query is issued.
C8_NothingAfterLimit ==
    [][Len(positions) >= MAX_POSITIONS =>
         /\ game_count' = game_count
         /\ move_number' = move_number /\ turn' = turn
         /\ queries' = queries
         /\ positions' = positions
         /\ pc' \in {"finally", "done"}]_vars

\* The limit was reached on a White move: the move was not pushed and Black's
\* reply, which the walk would otherwise take next, was never walked.
W8_LimitReachedMidGame ==
    /\ pc = "finally" /\ Len(positions) = MAX_POSITIONS
    /\ turn = WHITE /\ move_number > SKIP_FULL_MOVES
    /\ move_number <= MaxMoveNumber

\* C9: past the skip window a move is flagged backward if and only if the
\* piece on its origin square is a knight and the destination rank is
\* strictly below the origin rank for White, strictly above it for Black.
C9_BackwardIffKnightRetreats ==
    /\ pc = "legal_check" =>
          (is_backward <=>
              /\ piece = KNIGHT
              /\ \/ turn = WHITE /\ to_rank < from_rank
                 \/ turn = BLACK /\ to_rank > from_rank)
    /\ is_backward => move_number > SKIP_FULL_MOVES

W9_BlackKnightFlagged ==
    /\ pc = "legal_check" /\ is_backward
    /\ turn = BLACK /\ piece = KNIGHT /\ to_rank > from_rank

\* C10: when the top-ranked line starts with the backward move the
\* alternative comes from the second-ranked line; the alternative used in
\* the queries and comparisons of both stages is always a legal move other
\* than the backward move; a position without such a move is rejected.
C10_AlternativeIsGenuine ==
    /\ best_move # None =>
          /\ Val(best_move) \in 2..nLegal
          /\ IF analysis_results[1] = <<1>>
             THEN Len(analysis_results) > 1 /\ analysis_results[2] = best_move
             ELSE analysis_results[1] = best_move
    /\ \A i \in 1..Len(queries) :
          queries[i][1] \in {"prelim", "full"} =>
             /\ best_move # None
             /\ queries[i][2] \in {1, Val(best_move)}
    /\ (queries # <<>> /\ best_move = None) =>
          /\ prelim_failed /\ ~run_full_analysis
          /\ Len(queries) = 1
          /\ pc \in {"prelim_alt", "prelim_bwd", "prelim_compare",
                      "full_gate", "push"}

W10_AlternativeFromSecondLine ==
    /\ pc = "full_compare" /\ TopIsBackward
    /\ Len(analysis_results) = 2 /\ analysis_results[2] = best_move
    /\ alternative_best_score_full # None

WalkPcs == {"move_loop", "detect", "legal_check", "multipv", "prelim_alt",
            "prelim_bwd", "prelim_compare", "full_gate", "full_bwd",
            "full_alt", "full_compare", "push"}

\* C11: a query that raises or gives no score is not repeated and no other
\* query follows it for that position, no record is appended for the
\* position, and the walk continues with the next move of the same game.
C11_FailedQueryDisqualifiesPosition ==
    [][/\ queryFailed =>
            /\ ~IssuesQuery
            /\ positions' = positions
            /\ game_count' = game_count
            /\ pc \in WalkPcs
            /\ pc = "push" => pc' = "move_loop"
       /\ \A i, j \in 1..Len(queries') : queries'[i] = queries'[j] => i = j]_vars

\* The full-budget query of the backward move failed and the move is pushed.
W11_FullQueryFailed ==
    /\ pc = "push" /\ queryFailed /\ Len(queries) = 4
    /\ backward_move_score_full = None

\* C12 as stated: once the engine process has terminated, no further game is
\* read, no further move is walked and no further query is issued.
C12_Orig_TerminationStopsScan ==
    [][engine = "terminated" =>
         /\ game_count' = game_count
         /\ move_number' = move_number
         /\ ~IssuesQuery]_vars

\* A game header that makes the rating check skip the game.
EloRejected(h) ==
    \E k \in {1, 2} :
       LET v == IF h[k] = "missing" THEN "0" ELSE h[k]
       IN  v = "invalid" \/ IntOf(v) < 2200

\* C13: a game with a non-integer or below-2200 WhiteElo or BlackElo (a
\* missing header counting as 0) is skipped: no move of it is walked, no query
\* is issued for it, no record comes from it, and the next game is read.
C13_LowOrBadEloSkipsGame ==
    [][/\ (game_count' = game_count + 1 /\ EloRejected(headers')) =>
            /\ pc' = "game_loop"
            /\ UNCHANGED <<positions, queries, move_number, turn>>
       /\ pc' \in WalkPcs => ~EloRejected(headers')
       /\ \A i \in 1..Len(positions') : ~EloRejected(positions'[i].headers)]_vars

W13_GameSkippedForBlackElo ==
    /\ pc = "game_loop" /\ game_count = 1
    /\ headers = <<"2200", "2199">>
    /\ positions = <<>>

\* C14: no move of the first 10 full moves is checked, sent to the engine or
\* recorded; every record has move_number >= 11.
C14_SkipWindowNeverAnalysed ==
    /\ pc \in (WalkPcs \ {"move_loop"}) => move_number >= 11
    /\ (is_backward \/ queries # <<>>) => move_number >= 11
    /\ \A i \in 1..Len(positions) : positions[i].move_number >= 11

W14_RecordAtMoveEleven ==
    /\ Len(positions) = 1 /\ positions[1].move_number = 11
    /\ positions[1].turn = BLACK

\* C15: the engine is started at most once, and an engine that was started
\* is quit exactly once before the function returns, on every exit path.
C15_EngineQuitExactlyOnce ==
    /\ engine_starts <= 1
    /\ engine_quits <= engine_starts
    /\ pc = "done" => engine_quits = engine_starts
    /\ (pc = "done" /\ engine_starts = 1) => engine = "quit"
    /\ engine = "quit" => pc = "done"

\* The function returned after configure failed: the file was never opened.
W15_QuitAfterConfigureFailure ==
    pc = "done" /\ engine_starts = 1 /\ engine_quits = 1 /\ ~pgn_opened

\* C16: with no file at the engine path no engine is started, the game
\* collection is not opened and the empty list is returned.
C16_MissingEngineAborts ==
    path_exists = "missing" =>
        /\ pc = "done"
        /\ engine = "none" /\ engine_starts = 0
        /\ ~pgn_opened
        /\ positions = <<>> /\ game_count = 0 /\ queries = <<>>

W16_ReturnedWithoutEngine ==
    path_exists = "missing" /\ pc = "done" /\ positions = <<>>

\* ---------------------------------------------------------------------
\* find_lichess_puzzles.py: filter_puzzles(csv_filepath, min_rating,
\* max_rating, desired_themes, excluded_themes, max_puzzles)
\* ---------------------------------------------------------------------

\* The rating window of the call in the script's main block.
min_rating == 1400
max_rating == 1800

Themes == {"fork", "mateIn1"}

\* The Rating cell of a row: None is a cell int() rejects.
RowRatings == {None} \cup {Some(r) : r \in {min_rating - 1, min_rating, max_rating, max_rating + 1}}

\* Mutant of Segments: the segment before the start includes the start row.
SegmentsInclusiveEnd(r, n) ==
    IF r > n \div 2
    THEN << <<1, r>>, <<r, n>> >>
    ELSE << <<r, n>>, <<1, r>> >>

\* The two segments of the file, in processing order (lines 21-37). With
\* the start past the middle the file is processed from its first row.
Segments(r, n) ==
    IF r > n \div 2
    THEN << <<1, r - 1>>, <<r, n>> >>
    ELSE << <<r, n>>, <<1, r - 1>> >>

\* Mutant of RowMatches: the excluded themes are not consulted.
RowMatchesNoExclusion(rating, themes, desired, excluded) ==
    /\ min_rating <= rating /\ rating <= max_rating
    /\ (desired # {} => desired \cap themes # {})

\* The criteria of lines 64-75; an empty or absent theme list is falsy and
\* its test is skipped.
RowMatches(rating, themes, desired, excluded) ==
    /\ min_rating <= rating /\ rating <= max_rating
    /\ (desired # {} => desired \cap themes # {})
    /\ (excluded # {} => excluded \cap themes = {})

\* `max_puzzles and count >= max_puzzles` (lines 104 and 115).
TargetReached(c, mp) == mp # 0 /\ c >= mp

\* The call: the file and the arguments are the inputs.
LichessStart ==
    /\ lpc = "count_rows"
    /\ total_rows \in 0..MaxRows
    /\ desired_themes \in {{}, {"fork"}}
    /\ excluded_themes \in {{}, {"mateIn1"}}
    /\ max_puzzles \in 0..MaxTarget
    /\ random_start = 0
    /\ segments = <<>>
    /\ seg = 0
    /\ row_i = 0
    /\ selected_puzzles = <<>>
    /\ lichess_count = 0
    /\ processed = 0
    /\ examined = <<>>

LichessInit == FinderInit /\ ~zeroEngine /\ LichessStart /\ ScoreIdle

\* Lines 7-14: the rows are counted; an empty file returns at once.
CountRows ==
    /\ lpc = "count_rows"
    /\ lpc' = IF total_rows = 0 THEN "done" ELSE "choose_start"
    /\ UNCHANGED <<finderVars, scoreVars, total_rows, desired_themes,
                   excluded_themes, max_puzzles, random_start, segments, seg,
                   row_i, selected_puzzles, lichess_count, processed, examined>>

\* Lines 16-41: the random start and the segments.
ChooseStart ==
    /\ lpc = "choose_start"
    /\ \E r \in 1..total_rows :
          /\ random_start' = r
          /\ segments' = Segments(r, total_rows)
    /\ seg' = 1
    /\ lpc' = "open_segment"
    /\ UNCHANGED <<finderVars, scoreVars, total_rows, desired_themes,
                   excluded_themes, max_puzzles, row_i, selected_puzzles,
                   lichess_count, processed, examined>>

\* Lines 44-50: the file is reopened and start_row - 1 rows are skipped;
\* after the last segment the function returns (line 118).
OpenSegment ==
    /\ lpc = "open_segment"
    /\ IF seg > Len(segments)
       THEN /\ lpc' = "done"
            /\ UNCHANGED row_i
       ELSE /\ lpc' = "row"
            /\ row_i' = segments[seg][1]
    /\ UNCHANGED <<finderVars, scoreVars, total_rows, desired_themes,
                   excluded_themes, max_puzzles, random_start, segments, seg,
                   selected_puzzles, lichess_count, processed, examined>>

\* Lines 53-55: the reader is exhausted or the row is past the segment.
SegmentEnd ==
    /\ lpc = "row"
    /\ (row_i > total_rows \/ row_i > segments[seg][2])
    /\ seg' = seg + 1
    /\ lpc' = "open_segment"
    /\ UNCHANGED <<finderVars, scoreVars, total_rows, desired_themes,
                   excluded_themes, max_puzzles, random_start, segments,
                   row_i, selected_puzzles, lichess_count, processed, examined>>

\* Lines 57-116: one row. A rating that is no integer and a first move
\* that cannot be pushed end in the except clauses and reach line 115; a
\* row that fails a criterion continues with the next row.
ProcessRow ==
    /\ lpc = "row"
    /\ row_i <= total_rows /\ row_i <= segments[seg][2]
    /\ processed' = processed + 1
    /\ examined' = Append(examined, row_i)
    /\ \E rating \in RowRatings, themes \in SUBSET Themes, movesOk \in BOOLEAN :
          IF rating = None \/ (RowMatches(Val(rating), themes, desired_themes, excluded_themes) /\ ~movesOk)
          THEN /\ UNCHANGED <<selected_puzzles, lichess_count>>
               /\ IF TargetReached(lichess_count, max_puzzles)
                  THEN /\ seg' = seg + 1
                       /\ lpc' = "open_segment"
                       /\ UNCHANGED row_i
                  ELSE /\ row_i' = row_i + 1
                       /\ UNCHANGED <<seg, lpc>>
          ELSE IF ~RowMatches(Val(rating), themes, desired_themes, excluded_themes)
          THEN /\ row_i' = row_i + 1
               /\ UNCHANGED <<selected_puzzles, lichess_count, seg, lpc>>
          ELSE /\ selected_puzzles' = Append(selected_puzzles,
                      [PuzzleId |-> row_i, Rating |-> Val(rating), Themes |-> themes])
               /\ lichess_count' = lichess_count + 1
               /\ IF TargetReached(lichess_count', max_puzzles)
                  THEN /\ lpc' = "done"
                       /\ UNCHANGED <<seg, row_i>>
                  ELSE /\ row_i' = row_i + 1
                       /\ UNCHANGED <<seg, lpc>>
    /\ UNCHANGED <<finderVars, scoreVars, total_rows, desired_themes,
                   excluded_themes, max_puzzles, random_start, segments>>

LichessNext ==
    \/ CountRows
    \/ ChooseStart
    \/ OpenSegment
    \/ SegmentEnd
    \/ ProcessRow

SpecLichess == LichessInit /\ [][LichessNext]_vars

LichessTypeOK ==
    /\ lpc \in {"count_rows", "choose_start", "open_segment", "row", "done"}
    /\ total_rows \in 0..MaxRows
    /\ random_start \in 0..total_rows
    /\ seg \in 0..3
    /\ row_i \in 0..(MaxRows + 1)
    /\ lichess_count = Len(selected_puzzles)
    /\ processed = Len(examined)
    /\ processed <= total_rows

\* The rows in wrap-around order from row r of n: r..n, then 1..r-1.
WrapOrder(r, n) == [k \in 1..n |-> IF k <= n - r + 1 THEN r + k - 1 ELSE k - (n - r + 1)]

IsPrefix(s, t) == Len(s) <= Len(t) /\ \A k \in 1..Len(s) : s[k] = t[k]

\* C17: every puzzle the Lichess filter selects has a rating inside the
\* inclusive window [min_rating, max_rating] and carries none of the
\* excluded themes.
C17_SelectedInWindowNoExcludedTheme ==
    \A k \in 1..Len(selected_puzzles) :
        /\ selected_puzzles[k].Rating >= min_rating
        /\ selected_puzzles[k].Rating <= max_rating
        /\ selected_puzzles[k].Themes \cap excluded_themes = {}

W17_SelectedAtUpperBound ==
    /\ lpc = "done"
    /\ excluded_themes = {"mateIn1"}
    /\ Len(selected_puzzles) = 2
    /\ selected_puzzles[1].Rating = max_rating
    /\ selected_puzzles[2].Rating = min_rating
    /\ selected_puzzles[2].Themes = {"fork"}

\* C18 as stated: the rows are examined in wrap-around order from the
\* random start, the scan stopping early only when max_puzzles matches are
\* collected.
C18_Orig_WrapAroundFromStart ==
    lpc \in {"open_segment", "row", "done"} /\ random_start > 0 =>
        /\ IsPrefix(examined, WrapOrder(random_start, total_rows))
        /\ (lpc = "done" /\ ~TargetReached(lichess_count, max_puzzles)
               => examined = WrapOrder(random_start, total_rows))

ExaminedRows == {examined[k] : k \in 1..Len(examined)}

SegmentRows(k) == segments[k][1]..segments[k][2]

\* C22: for every start row the two segments partition the rows
\* 1..total_rows; no row is examined twice and no row is selected twice;
\* when the function returns without having reached max_puzzles, every row
\* has been examined exactly once.
C22_SegmentsPartitionRows ==
    lpc \in {"open_segment", "row", "done"} /\ random_start > 0 =>
        /\ Len(segments) = 2
        /\ SegmentRows(1) \cap SegmentRows(2) = {}
        /\ SegmentRows(1) \cup SegmentRows(2) = 1..total_rows
        /\ \A j, k \in 1..Len(examined) : examined[j] = examined[k] => j = k
        /\ ExaminedRows \subseteq 1..total_rows
        /\ \A j, k \in 1..Len(selected_puzzles) :
              selected_puzzles[j].PuzzleId = selected_puzzles[k].PuzzleId => j = k
        /\ \A k \in 1..Len(selected_puzzles) :
              selected_puzzles[k].PuzzleId \in ExaminedRows
        /\ (lpc = "done" /\ ~TargetReached(lichess_count, max_puzzles))
              => ExaminedRows = 1..total_rows

\* The start is the last row, the target of two puzzles was not reached and
\* every row was examined.
W22_StartAtLastRowAllExamined ==
    /\ lpc = "done"
    /\ total_rows = MaxRows
    /\ random_start = total_rows
    /\ max_puzzles = 2
    /\ lichess_count = 1
    /\ Len(examined) = total_rows
    /\ selected_puzzles[1].PuzzleId = total_rows

\* ---------------------------------------------------------------------
\* filter_pgn_by_score.py: filter_puzzles(input_pgn_path, output_pgn_path,
\* score_threshold)
\* ---------------------------------------------------------------------

\* The default of the parameter, which the script's main block uses.
score_threshold == -200

\* The SolutionScore header of an entry: absent, empty, not an integer, or
\* an integer around the threshold.
ScoreHeaders == {"missing", "", "invalid", "-201", "-200", "-199"}

\* `if solution_score_str:` (line 23): None and the empty string are falsy.
HasScore(h) == h \notin {"missing", ""}

\* int(solution_score_str) (line 25): raises ValueError unless the text is
\* an integer.
IsScoreInt(h) == h \in {"-201", "-200", "-199"}

ScoreOf(h) == CASE h = "-201" -> -201 [] h = "-200" -> -200 [] h = "-199" -> -199

\* Line 38: the comparison that keeps an entry.
Keeps(score, threshold) == score > threshold

\* Mutant of Classify: an entry without a FEN header is counted as dropped.
ClassifyCountsNoFen(e) ==
    IF ~HasScore(e.SolutionScore) THEN "ignore"
    ELSE IF ~IsScoreInt(e.SolutionScore) THEN "ignore"
    ELSE IF ~e.FEN THEN "drop"
    ELSE IF Keeps(ScoreOf(e.SolutionScore), score_threshold) THEN "keep"
    ELSE "drop"

\* Lines 22-45: what happens to one entry. Without a SolutionScore (line
\* 44), with one that is no integer (line 42) or without a FEN header (line
\* 29, no else) the entry is neither appended nor counted.
Classify(e) ==
    IF ~HasScore(e.SolutionScore) THEN "ignore"
    ELSE IF ~IsScoreInt(e.SolutionScore) THEN "ignore"
    ELSE IF ~e.FEN THEN "ignore"
    ELSE IF Keeps(ScoreOf(e.SolutionScore), score_threshold) THEN "keep"
    ELSE "drop"

ScoreStart ==
    /\ spc = "read"
    /\ input_games = <<>>
    /\ filtered_games = <<>>
    /\ score_count = 0
    /\ output_games = <<>>
    /\ counted_ids = {}

ScoreInit == FinderInit /\ ~zeroEngine /\ LichessIdle /\ ScoreStart

\* Lines 17-45: one entry is read and classified.
ReadEntry ==
    /\ spc = "read"
    /\ Len(input_games) < MaxEntries
    /\ \E h \in ScoreHeaders, f \in BOOLEAN :
          LET e == [id |-> Len(input_games) + 1, SolutionScore |-> h, FEN |-> f]
          IN /\ input_games' = Append(input_games, e)
             /\ filtered_games' = IF Classify(e) = "keep"
                                  THEN Append(filtered_games, e)
                                  ELSE filtered_games
             /\ score_count' = IF Classify(e) = "drop"
                               THEN score_count + 1
                               ELSE score_count
             /\ counted_ids' = IF Classify(e) = "drop"
                               THEN counted_ids \cup {e.id}
                               ELSE counted_ids
    /\ UNCHANGED <<finderVars, lichessVars, spc, output_games>>

\* Lines 19-20: read_game returns None at the end of the file.
EndOfFile ==
    /\ spc = "read"
    /\ spc' = "write"
    /\ UNCHANGED <<finderVars, lichessVars, input_games, filtered_games,
                   score_count, output_games, counted_ids>>

\* Lines 47-53: the kept entries are written and the count is printed.
WriteOutput ==
    /\ spc = "write"
    /\ output_games' = filtered_games
    /\ spc' = "done"
    /\ UNCHANGED <<finderVars, lichessVars, input_games, filtered_games,
                   score_count, counted_ids>>

ScoreNext ==
    \/ ReadEntry
    \/ EndOfFile
    \/ WriteOutput

SpecScore == ScoreInit /\ [][ScoreNext]_vars

\* The entries the filter decides on: an integer SolutionScore and a FEN.
Qualifies(e) == e.SolutionScore \in {"-201", "-200", "-199"} /\ e.FEN

WrittenIds == {output_games[k].id : k \in 1..Len(output_games)}

InputIds == 1..Len(input_games)

C20_Orig_KeptIffAtLeastThreshold ==
    spc = "done" =>
        \A k \in InputIds :
            Qualifies(input_games[k]) =>
                (k \in WrittenIds <=> ScoreOf(input_games[k].SolutionScore) >= score_threshold)

\* ---------------------------------------------------------------------
\* find_backwards_knights.py: the records of the collected list
\* ---------------------------------------------------------------------

\* C21: every record of the collected list has solution_score >=
\* next_best_score + SCORE_THRESHOLD; the two stored scores are the answers
\* of the full-stage queries for the backward move and for best_move, the
\* alternative of the preliminary stage, not the preliminary scores; a
\* record once collected is never modified or removed.
C21_RecordsKeepFullScores ==
    [][/\ IsPrefix(positions, positions')
       /\ \A k \in 1..Len(positions') :
             positions'[k].solution_score >=
                positions'[k].next_best_score + SCORE_THRESHOLD
       /\ Appends =>
             /\ Len(positions') = Len(positions) + 1
             /\ queries[Len(queries) - 1] = <<"full", 1>>
             /\ queries[Len(queries)] = <<"full", Val(best_move)>>
             /\ positions'[Len(positions')].solution_score = engineFull[1]
             /\ positions'[Len(positions')].next_best_score =
                   engineFull[Val(best_move)]]_vars

\* A second record was collected from a position whose preliminary score of
\* the backward move differs from its full score; the first record is still
\* in place.
W21_FullScoreDiffersFromPrelim ==
    /\ Len(positions) = 2
    /\ backward_score = Some(SCORE_THRESHOLD + 1)
    /\ backward_move_score_full = Some(SCORE_THRESHOLD)
    /\ positions[2].solution_score = SCORE_THRESHOLD
    /\ positions[1].solution_score = positions[1].next_best_score + SCORE_THRESHOLD

====
